---- MODULE Spec2Model ----
(***************************************************************************)
(* Scenario engine of MocTestServer (server/scenarios): the status         *)
(* classifier, the 14 scenario variants and the scenario registry; the     *)
(* generators that drive it from their threads, and the register map.      *)
(*                                                                         *)
(* Numbers.  Temperatures, humidities, limits and deltas are fixed-point   *)
(* integers in hundredths of a unit (22.0 is 2200, 40.04 is 4004), so that *)
(* round(x, 1) is a real operation: it maps a value to a multiple of 10.   *)
(* random.random() is a draw from RandomDraws (hundredths of [0, 1)) and   *)
(* random.uniform(a, b) a draw from UniformDraws(a, b).                    *)
(***************************************************************************)
EXTENDS Integers, Sequences, FiniteSets, TLC

VARIABLES
    config,      \* the baseline parameter bundle handed to get_scenario
    _scenario,   \* the scenario instance (its parameters and private state)
    call,        \* the operation that has just returned, with its inputs
    value,       \* the SensorValue returned by the last get_value
    raised,      \* the exception raised by the last operation, or "None"
    raw,         \* the last reading before _clamp and round (history)
    before,      \* the instance as the last get_value found it (history)
    run,         \* the timed episode under way: the duration drawn when it
                 \* was triggered and the faulted calls since (history)
    gen,         \* the generator that owns the instance: its configuration,
                 \* _running and _thread
    thr,         \* the threads of the generator: where each one is
    tick,        \* the generation cycle that no other cycle and no swap has
                 \* overlapped: its thread, the drift offset it began with
                 \* (history)
    fn,          \* direct call of a pure helper: which one
    args,        \* ... its arguments
    ret,         \* ... its result
    _registers   \* VirtualRegisters._registers: address -> 16-bit word

scenarioVars == <<config, _scenario, call, value, raised, raw, before, run>>
pureVars == <<fn, args, ret>>
genVars == <<gen, thr, tick>>
vars == <<config, _scenario, call, value, raised, raw, before, run, gen, thr,
          tick, fn, args, ret, _registers>>

(***************************************************************************)
(* Bounds of the model.                                                    *)
(***************************************************************************)
\* sensor ids handed to get_value are 1..MaxSensorId
MaxSensorId == 2
\* calls after which a scenario with an unbounded counter is no longer driven
MaxTicks == 3

Abs(x) == IF x < 0 THEN -x ELSE x

\* a / b rounded to the nearest integer (b > 0)
RoundDiv(a, b) == (2 * a + b) \div (2 * b)

(***************************************************************************)
(* Randomness and numeric helpers of the standard library.                 *)
(***************************************************************************)
\* random.random(), in hundredths
RandomDraws == {0, 99}

\* where in [a, b] a uniform draw may fall, in percent of the interval
Fractions == {0, 50, 100}

\* random.uniform(a, b)
UniformDraws(a, b) == {a + RoundDiv((b - a) * f, 100) : f \in Fractions}

\* random.randint(a, b)
RandInt(a, b) == a..b

\* round(x, 1): the nearest multiple of 0.1, a tie going to the even one
Round1(x) ==
    LET q == x \div 10
        r == x % 10
    IN  IF r < 5 THEN 10 * q
        ELSE IF r > 5 THEN 10 * (q + 1)
        ELSE IF q % 2 = 0 THEN 10 * q ELSE 10 * (q + 1)

\* 1000 * sin of k * 6 degrees, k = 0..59
SinTable ==
    << 0, 105, 208, 309, 407, 500, 588, 669, 743, 809, 866, 914, 951, 978,
       995, 1000, 995, 978, 951, 914, 866, 809, 743, 669, 588, 500, 407, 309,
       208, 105, 0, -105, -208, -309, -407, -500, -588, -669, -743, -809,
       -866, -914, -951, -978, -995, -1000, -995, -978, -951, -914, -866,
       -809, -743, -669, -588, -500, -407, -309, -208, -105 >>

\* 1000 * math.sin of an angle given in degrees (a multiple of 6)
SinMilli(deg) == SinTable[((deg % 360) \div 6) + 1]

\* x * m / 1000 for a factor m in thousandths
MulMilli(x, m) == RoundDiv(x * m, 1000)

(***************************************************************************)
(* BaseScenario: _clamp, _calculate_status, _get_combined_status.          *)
(***************************************************************************)
Max2(a, b) == IF a >= b THEN a ELSE b
Min2(a, b) == IF a <= b THEN a ELSE b

\* a clamp that has lost its upper bound
clamp_lower_only(v, min_val, max_val) == Max2(min_val, v)

_clamp(v, min_val, max_val) == Max2(min_val, Min2(max_val, v))

calculate_status_nonstrict(v, limit_min, limit_max, warning_delta, alarm_delta) ==
    IF v <= limit_min - alarm_delta \/ v >= limit_max + alarm_delta
    THEN "alarm"
    ELSE IF v < limit_min - warning_delta \/ v > limit_max + warning_delta
    THEN "warning"
    ELSE IF v < limit_min \/ v > limit_max
    THEN "warning"
    ELSE "normal"

\* a classifier without the out-of-band test: the margins alone decide
calculate_status_margins_only(v, limit_min, limit_max, warning_delta, alarm_delta) ==
    IF v < limit_min - alarm_delta \/ v > limit_max + alarm_delta
    THEN "alarm"
    ELSE IF v < limit_min - warning_delta \/ v > limit_max + warning_delta
    THEN "warning"
    ELSE "normal"

\* a classifier that tests the warning margin before the alarm margin
calculate_status_warning_first(v, limit_min, limit_max, warning_delta, alarm_delta) ==
    IF v < limit_min - warning_delta \/ v > limit_max + warning_delta
    THEN "warning"
    ELSE IF v < limit_min - alarm_delta \/ v > limit_max + alarm_delta
    THEN "alarm"
    ELSE IF v < limit_min \/ v > limit_max
    THEN "warning"
    ELSE "normal"

_calculate_status(v, limit_min, limit_max, warning_delta, alarm_delta) ==
    IF v < limit_min - alarm_delta \/ v > limit_max + alarm_delta
    THEN "alarm"
    ELSE IF v < limit_min - warning_delta \/ v > limit_max + warning_delta
    THEN "warning"
    ELSE IF v < limit_min \/ v > limit_max
    THEN "warning"
    ELSE "normal"

get_combined_status_temp_only(temp_status, hum_status) ==
    IF temp_status = "alarm" \/ hum_status = "alarm"
    THEN "alarm"
    ELSE IF temp_status = "warning"
    THEN "warning"
    ELSE "normal"

_get_combined_status(temp_status, hum_status) ==
    IF temp_status = "alarm" \/ hum_status = "alarm"
    THEN "alarm"
    ELSE IF temp_status = "warning" \/ hum_status = "warning"
    THEN "warning"
    ELSE "normal"

(***************************************************************************)
(* SensorValue and the limits mapping.                                     *)
(***************************************************************************)
SensorValue(temperature, humidity, temp_status, hum_status, combined_status, modbus_error) ==
    [temperature |-> temperature, humidity |-> humidity,
     temp_status |-> temp_status, hum_status |-> hum_status,
     combined_status |-> combined_status, modbus_error |-> modbus_error]

\* no SensorValue has been returned (after construction, or after a raise)
NoValue == SensorValue(0, 0, "none", "none", "none", "None")
NoRaw == [temp |-> 0, hum |-> 0]

\* a fault return that keeps a last reading instead of the sentinel
offline_value_last_reading(modbus_error) ==
    SensorValue(2200, 4500, "offline", "offline", "offline", modbus_error)

\* the fault return of the error scenarios: offline, sentinel 0.0 / 0.0
offline_value_status_kept(modbus_error) ==
    SensorValue(0, 0, "normal", "normal", "offline", modbus_error)

OfflineValue(modbus_error) ==
    SensorValue(0, 0, "offline", "offline", "offline", modbus_error)

\* dict.get(key, default) on a missing key, with the default lost
limits_get_zero(limits, key, default) ==
    IF key \in DOMAIN limits THEN limits[key] ELSE 0

\* limits.get(key, default)
LimitsGet(limits, key, default) ==
    IF key \in DOMAIN limits THEN limits[key] ELSE default

\* the status block shared by the classifying variants: temp_status,
\* hum_status and combined_status of an already clamped and rounded reading
Classified(temp, hum, limits) ==
    LET temp_status == _calculate_status(temp,
            LimitsGet(limits, "temp_min", -1000),
            LimitsGet(limits, "temp_max", 4000),
            LimitsGet(limits, "temp_warning_delta", 300),
            LimitsGet(limits, "temp_alarm_delta", 500))
        hum_status == _calculate_status(hum,
            LimitsGet(limits, "hum_min", 2000),
            LimitsGet(limits, "hum_max", 8000),
            LimitsGet(limits, "hum_warning_delta", 500),
            LimitsGet(limits, "hum_alarm_delta", 1000))
    IN  SensorValue(temp, hum, temp_status, hum_status,
                    _get_combined_status(temp_status, hum_status), "None")

\* the statuses computed from the clamped value, the rounding applied after
measured_classify_first(s, temp, hum, limits) ==
    LET t == _clamp(temp, s.temp_min, s.temp_max)
        h == _clamp(hum, s.hum_min, s.hum_max)
        c == Classified(t, h, limits)
    IN  [c EXCEPT !.temperature = Round1(t), !.humidity = Round1(h)]

\* clamp, round to one decimal, then classify
Measured(s, temp, hum, limits) ==
    Classified(Round1(_clamp(temp, s.temp_min, s.temp_max)),
               Round1(_clamp(hum, s.hum_min, s.hum_max)), limits)

\* the normal path of the forced-normal variants classifying after all
forced_normal_classified(s, temp, hum) ==
    Measured(s, temp, hum, [k \in {} |-> 0])

\* clamp and round, the statuses forced to normal (Timeout, CRCError,
\* PowerOutage)
ForcedNormal(s, temp, hum) ==
    SensorValue(Round1(_clamp(temp, s.temp_min, s.temp_max)),
                Round1(_clamp(hum, s.hum_min, s.hum_max)),
                "normal", "normal", "normal", "None")

(***************************************************************************)
(* The registry and the constructors.                                      *)
(***************************************************************************)
SCENARIOS ==
    [normal |-> "NormalScenario",
     drift_up |-> "DriftUpScenario",
     drift_down |-> "DriftDownScenario",
     sine |-> "SineScenario",
     offline |-> "OfflineScenario",
     intermittent |-> "IntermittentScenario",
     timeout |-> "TimeoutScenario",
     crc_error |-> "CRCErrorScenario",
     partial_offline |-> "PartialOfflineScenario",
     daily_cycle |-> "DailyCycleScenario",
     hvac_control |-> "HVACControlScenario",
     door_open |-> "DoorOpenScenario",
     power_outage |-> "PowerOutageScenario",
     sensor_failure |-> "SensorFailureScenario"]

\* a lookup that fails on a name that is not registered
scenarios_lookup_strict(name) ==
    IF name \in DOMAIN SCENARIOS THEN SCENARIOS[name] ELSE "KeyError"

\* SCENARIOS.get(name, NormalScenario)
ScenarioClass(name) ==
    IF name \in DOMAIN SCENARIOS THEN SCENARIOS[name] ELSE "NormalScenario"

\* a keyword argument, or the default of the constructor's signature
KwGet(kwargs, key, default) ==
    IF key \in DOMAIN kwargs THEN kwargs[key] ELSE default

\* BaseScenario.__init__
BaseScenario(cls, kwargs) ==
    [cls |-> cls,
     temp_base |-> KwGet(kwargs, "temp_base", 2200),
     temp_variation |-> KwGet(kwargs, "temp_variation", 200),
     temp_min |-> KwGet(kwargs, "temp_min", -4000),
     temp_max |-> KwGet(kwargs, "temp_max", 8500),
     hum_base |-> KwGet(kwargs, "hum_base", 4500),
     hum_variation |-> KwGet(kwargs, "hum_variation", 500),
     hum_min |-> KwGet(kwargs, "hum_min", 0),
     hum_max |-> KwGet(kwargs, "hum_max", 10000),
     offline_sensors |-> KwGet(kwargs, "offline_sensors", {}),
     _iteration |-> 0]

\* the constructor of each class; offline_draw is the set of ids for which
\* PartialOfflineScenario.__init__ drew random() < offline_probability
NewScenario(cls, kwargs, offline_draw) ==
    LET base == BaseScenario(cls, kwargs)
    IN  CASE cls \in {"DriftUpScenario", "DriftDownScenario"} ->
                [drift_rate |-> KwGet(kwargs, "drift_rate", 10),
                 _current_offset |-> 0] @@ base
          [] cls = "SineScenario" ->
                [period |-> KwGet(kwargs, "period", 60),
                 amplitude |-> KwGet(kwargs, "amplitude", 500)] @@ base
          [] cls = "IntermittentScenario" ->
                [failure_rate |-> KwGet(kwargs, "failure_rate", 20)] @@ base
          [] cls = "TimeoutScenario" ->
                [timeout_rate |-> KwGet(kwargs, "timeout_rate", 30)] @@ base
          [] cls = "CRCErrorScenario" ->
                [crc_error_rate |-> KwGet(kwargs, "crc_error_rate", 15)] @@ base
          [] cls = "PartialOfflineScenario" ->
                [offline_probability |-> KwGet(kwargs, "offline_probability", 30),
                 _offline_sensors |-> offline_draw] @@ base
          [] cls = "DailyCycleScenario" ->
                [day_temp |-> KwGet(kwargs, "day_temp", 2500),
                 night_temp |-> KwGet(kwargs, "night_temp", 1800)] @@ base
          [] cls = "HVACControlScenario" ->
                [setpoint |-> KwGet(kwargs, "setpoint", 2200),
                 hysteresis |-> KwGet(kwargs, "hysteresis", 100),
                 _hvac_on |-> FALSE,
                 _current_temp |-> KwGet(kwargs, "setpoint", 2200)] @@ base
          [] cls = "DoorOpenScenario" ->
                [open_probability |-> KwGet(kwargs, "open_probability", 10),
                 outside_temp |-> KwGet(kwargs, "outside_temp", 3500),
                 _door_open |-> FALSE,
                 _door_timer |-> 0] @@ base
          [] cls = "PowerOutageScenario" ->
                [outage_probability |-> KwGet(kwargs, "outage_probability", 5),
                 _power_off |-> FALSE,
                 _outage_timer |-> 0] @@ base
          [] cls = "SensorFailureScenario" ->
                [failure_rate |-> KwGet(kwargs, "failure_rate", 1),
                 _failed_sensors |-> {}] @@ base
          [] OTHER -> base

(***************************************************************************)
(* The inputs the model draws from.                                        *)
(***************************************************************************)
\* the baseline bundles a generator's configuration hands to get_scenario:
\* the default configuration, one whose baseline sits just above a band
\* edge, one whose bounds are not multiples of 0.1, and the noise-free
\* fixture (both variations 0)
Configs ==
    {[temp_base |-> 2200, temp_variation |-> 200, temp_min |-> -4000,
      temp_max |-> 8500, hum_base |-> 4500, hum_variation |-> 500,
      hum_min |-> 0, hum_max |-> 10000, offline_sensors |-> {}],
     [temp_base |-> 4004, temp_variation |-> 200, temp_min |-> -4000,
      temp_max |-> 8500, hum_base |-> 4500, hum_variation |-> 500,
      hum_min |-> 0, hum_max |-> 10000, offline_sensors |-> {2}],
     [temp_base |-> 4004, temp_variation |-> 200, temp_min |-> -4000,
      temp_max |-> 3996, hum_base |-> 4500, hum_variation |-> 500,
      hum_min |-> 4504, hum_max |-> 10000, offline_sensors |-> {}],
     [temp_base |-> 2200, temp_variation |-> 0, temp_min |-> -4000,
      temp_max |-> 8500, hum_base |-> 4500, hum_variation |-> 0,
      hum_min |-> 0, hum_max |-> 10000, offline_sensors |-> {}]}

\* variant-specific keyword arguments
ExtraKwargs ==
    {[drift_rate |-> 10, period |-> 4, hysteresis |-> 20],
     [drift_rate |-> 0, period |-> 0, hysteresis |-> 0],
     [drift_rate |-> -10, period |-> 60, hysteresis |-> 20]}

\* scenario names: the registered ones and two that are not
Names == DOMAIN SCENARIOS \cup {"not_a_real_name", ""}

\* the ids PartialOfflineScenario.__init__ may draw, a subset of 1..10
OfflineDraws == {S \in SUBSET (1..10) : S \subseteq {1, 2, 10}}

SensorIds == 1..MaxSensorId

\* a sensor id beyond the ids 1..10 of PartialOfflineScenario's draw
BeyondDraw == 11

DefaultLimits ==
    [temp_min |-> -1000, temp_max |-> 4000, temp_warning_delta |-> 300,
     temp_alarm_delta |-> 500, hum_min |-> 2000, hum_max |-> 8000,
     hum_warning_delta |-> 500, hum_alarm_delta |-> 1000]

\* limits mappings: complete, empty, partial, and complete with a narrow
\* band and warning deltas above the alarm deltas
LimitsSet ==
    {DefaultLimits,
     [k \in {} |-> 0],
     [temp_max |-> 1800, hum_max |-> 4400],
     [temp_min |-> 2100, temp_max |-> 2300, temp_warning_delta |-> 500,
      temp_alarm_delta |-> 100, hum_min |-> 4400, hum_max |-> 4600,
      hum_warning_delta |-> 200, hum_alarm_delta |-> 400]}

\* the hours datetime.now() may show
ClockHours == {2, 8, 10, 14}

(***************************************************************************)
(* get_scenario and the get_value of each variant.                         *)
(***************************************************************************)
\* no operation is under way: the caller has taken the last result
Idle == call.op = "idle"

\* no timed episode (door opening, power outage) is under way
NoRun == [drawn |-> 0, calls |-> 0]

\* the episode after a call that found the instance as b, left it as s and
\* returned v: a call that triggers one records the drawn duration (the
\* countdown has been decremented once), and each call that returns a
\* faulted reading (no_power; an open-door reading) is counted
RunAfter(b, s, v) ==
    CASE b.cls = "PowerOutageScenario" ->
            IF b._power_off THEN [run EXCEPT !.calls = @ + 1]
            ELSE IF v.modbus_error = "no_power"
            THEN [drawn |-> s._outage_timer + 1, calls |-> 1]
            ELSE NoRun
      [] b.cls = "DoorOpenScenario" ->
            IF b._door_open
            THEN (IF s._door_open THEN [run EXCEPT !.calls = @ + 1] ELSE run)
            ELSE IF s._door_open
            THEN [drawn |-> s._door_timer + 1, calls |-> 1]
            ELSE NoRun
      [] OTHER -> NoRun

NoLimits == [k \in {} |-> 0]

\* a registry that hands back the current instance when it is already of
\* the class asked for
get_scenario_reusing(name, extra, offline_draw) ==
    /\ Idle
    /\ _scenario' = IF _scenario.cls = ScenarioClass(name) THEN _scenario
                    ELSE NewScenario(ScenarioClass(name), extra @@ config, offline_draw)
    /\ call' = [op |-> "get_scenario", name |-> name, sensor_id |-> 0,
                limits |-> NoLimits]
    /\ value' = NoValue
    /\ raw' = NoRaw
    /\ raised' = "None"
    /\ before' = _scenario'
    /\ run' = NoRun
    /\ UNCHANGED <<config, pureVars, _registers, genVars>>

\* get_scenario(name, **kwargs): the instance replaces the current one
get_scenario(name, extra, offline_draw) ==
    /\ Idle
    /\ _scenario' = NewScenario(ScenarioClass(name), extra @@ config, offline_draw)
    /\ call' = [op |-> "get_scenario", name |-> name, sensor_id |-> 0,
                limits |-> NoLimits]
    /\ value' = NoValue
    /\ raw' = NoRaw
    /\ raised' = "None"
    /\ before' = _scenario'
    /\ run' = NoRun
    /\ UNCHANGED <<config, pureVars, _registers, genVars>>

\* get_value(sensor_id, limits) returns v and leaves the instance as s
Returns(sensor_id, limits, s, v, r) ==
    /\ Idle
    /\ _scenario' = s
    /\ call' = [call EXCEPT !.op = "get_value", !.sensor_id = sensor_id,
                            !.limits = limits]
    /\ value' = v
    /\ raw' = r
    /\ raised' = "None"
    /\ before' = _scenario
    /\ run' = RunAfter(_scenario, s, v)
    /\ UNCHANGED <<config, pureVars, _registers, genVars>>

\* get_value(sensor_id, limits) raises before it changed the instance
Raises(sensor_id, limits, exception) ==
    /\ Idle
    /\ call' = [call EXCEPT !.op = "get_value", !.sensor_id = sensor_id,
                            !.limits = limits]
    /\ value' = NoValue
    /\ raw' = NoRaw
    /\ raised' = exception
    /\ before' = _scenario
    /\ UNCHANGED <<config, _scenario, run, pureVars, _registers, genVars>>

\* a reading whose noise does not follow the configured variation
normal_reading_fixed_noise(s, sensor_id) ==
    {[temp |-> s.temp_base + (sensor_id - 1) * 30 + dt, hum |-> s.hum_base + dh] :
        dt \in UniformDraws(-200, 200), dh \in UniformDraws(-500, 500)}

\* the reading of the Normal formula: bias 0.3 per sensor id, full noise
NormalReading(s, sensor_id) ==
    {[temp |-> s.temp_base + (sensor_id - 1) * 30 + dt, hum |-> s.hum_base + dh] :
        dt \in UniformDraws(-s.temp_variation, s.temp_variation),
        dh \in UniformDraws(-s.hum_variation, s.hum_variation)}

NormalScenario_get_value(sensor_id, limits) ==
    /\ _scenario.cls = "NormalScenario"
    /\ \E r \in NormalReading(_scenario, sensor_id) :
          Returns(sensor_id, limits, _scenario,
                  Measured(_scenario, r.temp, r.hum, limits), r)

\* the offset after one more call: the mutation of the drift scenarios
drift_up_offset_reversed(offset, drift_rate) == offset - drift_rate

DriftUpOffset(offset, drift_rate) == offset + drift_rate

DriftDownOffset(offset, drift_rate) == offset - drift_rate

DriftReading(s, sensor_id, offset) ==
    {[temp |-> s.temp_base + (sensor_id - 1) * 30 + offset + dt,
      hum |-> s.hum_base - RoundDiv(offset, 2) + dh] :
        dt \in UniformDraws(-RoundDiv(s.temp_variation, 2), RoundDiv(s.temp_variation, 2)),
        dh \in UniformDraws(-s.hum_variation, s.hum_variation)}

DriftUpScenario_get_value(sensor_id, limits) ==
    /\ _scenario.cls = "DriftUpScenario"
    /\ \/ _scenario.drift_rate = 0
       \/ Abs(_scenario._current_offset) < MaxTicks * Abs(_scenario.drift_rate)
    /\ LET offset == DriftUpOffset(_scenario._current_offset, _scenario.drift_rate)
           s == [_scenario EXCEPT !._current_offset = offset]
       IN  \E r \in DriftReading(s, sensor_id, offset) :
              Returns(sensor_id, limits, s, Measured(s, r.temp, r.hum, limits), r)

DriftDownScenario_get_value(sensor_id, limits) ==
    /\ _scenario.cls = "DriftDownScenario"
    /\ \/ _scenario.drift_rate = 0
       \/ Abs(_scenario._current_offset) < MaxTicks * Abs(_scenario.drift_rate)
    /\ LET offset == DriftDownOffset(_scenario._current_offset, _scenario.drift_rate)
           s == [_scenario EXCEPT !._current_offset = offset]
       IN  \E r \in DriftReading(s, sensor_id, offset) :
              Returns(sensor_id, limits, s, Measured(s, r.temp, r.hum, limits), r)

SineScenario_get_value(sensor_id, limits) ==
    /\ _scenario.cls = "SineScenario"
    /\ _scenario._iteration < MaxTicks
    /\ IF _scenario.period = 0
       THEN Raises(sensor_id, limits, "ZeroDivisionError")
       ELSE LET s == _scenario
                sine_value == SinMilli((360 * s._iteration) \div s.period
                                       + (sensor_id - 1) * 36)
            IN  \E dt \in UniformDraws(-MulMilli(s.temp_variation, 300),
                                       MulMilli(s.temp_variation, 300)),
                   dh \in UniformDraws(-RoundDiv(s.hum_variation, 2),
                                       RoundDiv(s.hum_variation, 2)) :
                   LET r == [temp |-> s.temp_base + (sensor_id - 1) * 30
                                      + MulMilli(s.amplitude, sine_value) + dt,
                             hum |-> s.hum_base
                                     - MulMilli(s.amplitude * 2, sine_value) + dh]
                   IN  Returns(sensor_id, limits,
                               [s EXCEPT !._iteration = @ + 1],
                               Measured(s, r.temp, r.hum, limits), r)

OfflineScenario_get_value(sensor_id, limits) ==
    /\ _scenario.cls = "OfflineScenario"
    /\ Returns(sensor_id, limits, _scenario, OfflineValue("timeout"), NoRaw)

IntermittentScenario_get_value(sensor_id, limits) ==
    /\ _scenario.cls = "IntermittentScenario"
    /\ \E p \in RandomDraws :
          IF p < _scenario.failure_rate
          THEN Returns(sensor_id, limits, _scenario, OfflineValue("timeout"), NoRaw)
          ELSE \E r \in NormalReading(_scenario, sensor_id) :
                  Returns(sensor_id, limits, _scenario,
                          Measured(_scenario, r.temp, r.hum, limits), r)

TimeoutScenario_get_value(sensor_id, limits) ==
    /\ _scenario.cls = "TimeoutScenario"
    /\ \E p \in RandomDraws :
          IF p < _scenario.timeout_rate
          THEN Returns(sensor_id, limits, _scenario, OfflineValue("timeout"), NoRaw)
          ELSE \E r \in NormalReading(_scenario, sensor_id) :
                  Returns(sensor_id, limits, _scenario,
                          ForcedNormal(_scenario, r.temp, r.hum), r)

CRCErrorScenario_get_value(sensor_id, limits) ==
    /\ _scenario.cls = "CRCErrorScenario"
    /\ \E p \in RandomDraws :
          IF p < _scenario.crc_error_rate
          THEN Returns(sensor_id, limits, _scenario, OfflineValue("crc_error"), NoRaw)
          ELSE \E r \in NormalReading(_scenario, sensor_id) :
                  Returns(sensor_id, limits, _scenario,
                          ForcedNormal(_scenario, r.temp, r.hum), r)

\* the offline set drawn again by every call
partial_offline_redrawn(sensor_id, limits) ==
    /\ _scenario.cls = "PartialOfflineScenario"
    /\ \E d \in OfflineDraws :
          LET s == [_scenario EXCEPT !._offline_sensors = d]
          IN  IF sensor_id \in d \/ sensor_id \in s.offline_sensors
              THEN Returns(sensor_id, limits, s, OfflineValue("timeout"), NoRaw)
              ELSE \E r \in NormalReading(s, sensor_id) :
                      Returns(sensor_id, limits, s,
                              Measured(s, r.temp, r.hum, limits), r)

PartialOfflineScenario_get_value(sensor_id, limits) ==
    /\ _scenario.cls = "PartialOfflineScenario"
    /\ IF sensor_id \in _scenario._offline_sensors
          \/ sensor_id \in _scenario.offline_sensors
       THEN Returns(sensor_id, limits, _scenario, OfflineValue("timeout"), NoRaw)
       ELSE \E r \in NormalReading(_scenario, sensor_id) :
               Returns(sensor_id, limits, _scenario,
                       Measured(_scenario, r.temp, r.hum, limits), r)

DailyCycleScenario_get_value(sensor_id, limits) ==
    /\ _scenario.cls = "DailyCycleScenario"
    /\ \E hour \in ClockHours :
          LET s == _scenario
              daily_factor == SinMilli((hour - 8) * 15)
              temp_amplitude == RoundDiv(s.day_temp - s.night_temp, 2)
              temp_center == RoundDiv(s.day_temp + s.night_temp, 2)
          IN  \E dt \in UniformDraws(-100, 100),
                 dh \in UniformDraws(-s.hum_variation, s.hum_variation) :
                 LET r == [temp |-> temp_center + MulMilli(temp_amplitude, daily_factor)
                                    + (sensor_id - 1) * 20 + dt,
                           hum |-> s.hum_base - MulMilli(1000, daily_factor) + dh]
                 IN  Returns(sensor_id, limits, s,
                             Measured(s, r.temp, r.hum, limits), r)

\* a thermostat without the dead band: on above the setpoint, off below
hvac_on_without_hysteresis(s) ==
    IF s._current_temp > s.setpoint THEN TRUE
    ELSE IF s._current_temp < s.setpoint THEN FALSE
    ELSE s._hvac_on

\* a controller that never switches off again
hvac_on_latched(s) ==
    IF s._current_temp > s.setpoint + s.hysteresis THEN TRUE ELSE s._hvac_on

\* the on/off flag after the hysteresis test
HvacOn(s) ==
    IF s._current_temp > s.setpoint + s.hysteresis THEN TRUE
    ELSE IF s._current_temp < s.setpoint - s.hysteresis THEN FALSE
    ELSE s._hvac_on

HVACControlScenario_get_value(sensor_id, limits) ==
    /\ _scenario.cls = "HVACControlScenario"
    /\ LET on == HvacOn(_scenario)
       IN  \E d \in (IF on THEN UniformDraws(10, 30) ELSE UniformDraws(5, 15)),
              dt \in UniformDraws(-30, 30),
              dh \in UniformDraws(-RoundDiv(_scenario.hum_variation, 2),
                                  RoundDiv(_scenario.hum_variation, 2)) :
              LET current == IF on THEN _scenario._current_temp - d
                                   ELSE _scenario._current_temp + d
                  s == [_scenario EXCEPT !._hvac_on = on, !._current_temp = current]
                  r == [temp |-> current + (sensor_id - 1) * 10 + dt,
                        hum |-> s.hum_base + (IF on THEN 500 ELSE -200) + dh]
              IN  Returns(sensor_id, limits, s,
                          Measured(s, r.temp, r.hum, limits), r)

\* the durations random.randint(5, 15) may draw when the door opens on
\* draw p; no duration is drawn otherwise
DoorDurations(s, p) ==
    IF ~s._door_open /\ p < s.open_probability THEN RandInt(5, 15) ELSE {0}

\* the door state after the opening draw and the countdown
DoorAfter(s, p, duration) ==
    LET opened == IF ~s._door_open /\ p < s.open_probability
                  THEN [s EXCEPT !._door_open = TRUE, !._door_timer = duration]
                  ELSE s
    IN  IF opened._door_open
        THEN [opened EXCEPT !._door_timer = @ - 1,
                            !._door_open = ~(opened._door_timer - 1 <= 0)]
        ELSE opened

DoorOpenScenario_get_value(sensor_id, limits) ==
    /\ _scenario.cls = "DoorOpenScenario"
    /\ \E p \in RandomDraws :
       \E duration \in DoorDurations(_scenario, p) :
          LET s == DoorAfter(_scenario, p, duration)
          IN  IF s._door_open
              THEN \E dt \in UniformDraws(-200, 200), dh \in UniformDraws(-1000, 1000) :
                      LET r == [temp |-> s.temp_base
                                         + RoundDiv((s.outside_temp - s.temp_base) * 3, 10)
                                         + dt,
                                hum |-> s.hum_base + dh]
                      IN  Returns(sensor_id, limits, s,
                                  Measured(s, r.temp, r.hum, limits), r)
              ELSE \E r \in NormalReading(s, sensor_id) :
                      Returns(sensor_id, limits, s,
                              Measured(s, r.temp, r.hum, limits), r)

\* the outage drawing its duration from the range of the door
outage_durations_of_door(s, p) ==
    IF ~s._power_off /\ p < s.outage_probability THEN RandInt(5, 15) ELSE {0}

\* the durations random.randint(10, 30) may draw when the power goes off
\* on draw p; no duration is drawn otherwise
OutageDurations(s, p) ==
    IF ~s._power_off /\ p < s.outage_probability THEN RandInt(10, 30) ELSE {0}

\* an outage draw that does not look at the power-off flag
power_after_draw_unguarded(s, p, duration) ==
    IF p < s.outage_probability
    THEN [s EXCEPT !._power_off = TRUE, !._outage_timer = duration]
    ELSE s

\* the power state after the outage draw
PowerAfterDraw(s, p, duration) ==
    IF ~s._power_off /\ p < s.outage_probability
    THEN [s EXCEPT !._power_off = TRUE, !._outage_timer = duration]
    ELSE s

PowerOutageScenario_get_value(sensor_id, limits) ==
    /\ _scenario.cls = "PowerOutageScenario"
    /\ \E p \in RandomDraws :
       \E duration \in OutageDurations(_scenario, p) :
          LET drawn == PowerAfterDraw(_scenario, p, duration)
          IN  IF drawn._power_off
              THEN Returns(sensor_id, limits,
                           [drawn EXCEPT !._outage_timer = @ - 1,
                                         !._power_off = ~(drawn._outage_timer - 1 <= 0)],
                           OfflineValue("no_power"), NoRaw)
              ELSE \E r \in NormalReading(drawn, sensor_id) :
                      Returns(sensor_id, limits, drawn,
                              ForcedNormal(drawn, r.temp, r.hum), r)

\* a failed sensor that answers is taken out of the failed set again
failed_after_recovering(s, sensor_id, p) ==
    IF sensor_id \in s._failed_sensors
    THEN s._failed_sensors \ {sensor_id}
    ELSE IF p < s.failure_rate THEN s._failed_sensors \cup {sensor_id}
    ELSE s._failed_sensors

\* a failure that takes the next sensor down with it
failed_after_spreading(s, sensor_id, p) ==
    IF sensor_id \notin s._failed_sensors /\ p < s.failure_rate
    THEN s._failed_sensors \cup {sensor_id, sensor_id + 1}
    ELSE s._failed_sensors

\* the failed set after the failure draw of a call for sensor_id
FailedAfter(s, sensor_id, p) ==
    IF sensor_id \notin s._failed_sensors /\ p < s.failure_rate
    THEN s._failed_sensors \cup {sensor_id}
    ELSE s._failed_sensors

SensorFailureScenario_get_value(sensor_id, limits) ==
    /\ _scenario.cls = "SensorFailureScenario"
    /\ \E p \in RandomDraws :
          LET s == [_scenario EXCEPT
                        !._failed_sensors = FailedAfter(_scenario, sensor_id, p)]
          IN  IF sensor_id \in s._failed_sensors
              THEN \E q \in RandomDraws :
                      IF q < 50
                      THEN Returns(sensor_id, limits, s,
                                   OfflineValue("sensor_failure"), NoRaw)
                      ELSE \E t \in UniformDraws(-4000, 8500),
                              h \in UniformDraws(0, 10000) :
                              Returns(sensor_id, limits, s,
                                      SensorValue(Round1(t), Round1(h), "alarm",
                                                  "alarm", "alarm", "invalid_data"),
                                      [temp |-> t, hum |-> h])
              ELSE \E r \in NormalReading(s, sensor_id) :
                      Returns(sensor_id, limits, s,
                              Measured(s, r.temp, r.hum, limits), r)

\* get_value dispatches on the class of the instance
get_value(sensor_id, limits) ==
    \/ NormalScenario_get_value(sensor_id, limits)
    \/ DriftUpScenario_get_value(sensor_id, limits)
    \/ DriftDownScenario_get_value(sensor_id, limits)
    \/ SineScenario_get_value(sensor_id, limits)
    \/ OfflineScenario_get_value(sensor_id, limits)
    \/ IntermittentScenario_get_value(sensor_id, limits)
    \/ TimeoutScenario_get_value(sensor_id, limits)
    \/ CRCErrorScenario_get_value(sensor_id, limits)
    \/ PartialOfflineScenario_get_value(sensor_id, limits)
    \/ DailyCycleScenario_get_value(sensor_id, limits)
    \/ HVACControlScenario_get_value(sensor_id, limits)
    \/ DoorOpenScenario_get_value(sensor_id, limits)
    \/ PowerOutageScenario_get_value(sensor_id, limits)
    \/ SensorFailureScenario_get_value(sensor_id, limits)

(***************************************************************************)
(* VirtualRegisters (mock_modbus/registers.py): the register map and the   *)
(* fixed-point encoding of a sensor's values.                              *)
(***************************************************************************)
value_base == 30000
status_base == 40000

temp_addr(sensor_id) == value_base + (sensor_id - 1) * 2
hum_addr(sensor_id) == value_base + (sensor_id - 1) * 2 + 1
temp_status_addr(sensor_id) == status_base + (sensor_id - 1) * 2
hum_status_addr(sensor_id) == status_base + (sensor_id - 1) * 2 + 1

\* the four addresses of a sensor
SensorAddresses(sensor_id) ==
    {temp_addr(sensor_id), hum_addr(sensor_id),
     temp_status_addr(sensor_id), hum_status_addr(sensor_id)}

\* _init_registers: 22.0 and 45.0, both statuses OK, for every sensor of
\* range(1, sensor_count + 1)
_init_registers ==
    [a \in UNION {SensorAddresses(i) : i \in SensorIds} |->
        IF \E i \in SensorIds : a = temp_addr(i) THEN 220
        ELSE IF \E i \in SensorIds : a = hum_addr(i) THEN 450
        ELSE 0]

\* int(x * 10) of a value x in hundredths: int truncates towards zero
IntTimes10(x) == IF x >= 0 THEN x \div 10 ELSE -((-x) \div 10)

\* n & 0xFFFF
Word16(n) == n % 65536

\* a 16-bit word read as unsigned, the sign left unhandled
signed16_unhandled(temp_raw) == temp_raw

\* if temp_raw > 32767: temp_raw = temp_raw - 65536
Signed16(temp_raw) == IF temp_raw > 32767 THEN temp_raw - 65536 ELSE temp_raw

\* raw / 10.0, in hundredths
FromRaw(n) == n * 10

\* self._registers.get(address, 0)
RegisterGet(regs, address) == IF address \in DOMAIN regs THEN regs[address] ELSE 0

\* the dictionary get_sensor_values(sensor_id) returns from registers regs
SensorValuesOf(regs, sensor_id) ==
    LET temp_raw == Signed16(RegisterGet(regs, temp_addr(sensor_id)))
        hum_raw == RegisterGet(regs, hum_addr(sensor_id))
    IN  [temperature |-> [value |-> FromRaw(temp_raw), raw |-> temp_raw,
                          address |-> temp_addr(sensor_id),
                          status |-> RegisterGet(regs, temp_status_addr(sensor_id))],
         humidity |-> [value |-> FromRaw(hum_raw), raw |-> hum_raw,
                       address |-> hum_addr(sensor_id),
                       status |-> RegisterGet(regs, hum_status_addr(sensor_id))]]

(***************************************************************************)
(* The scenario engine driven by any caller.                               *)
(***************************************************************************)
\* the threads a generator may have: its background loops (a second one is
\* a second slot for threading.Thread) and one request thread of the API
LoopThreads == {"loop1", "loop2"}
Threads == LoopThreads \cup {"request"}

\* no generator owns the instance: the engine is driven directly
NoGenerator ==
    [kind |-> "none", scenario |-> "normal", interval_ms |-> 0,
     sensor_count |-> 0, _running |-> FALSE, _thread |-> "None"]

NoThread ==
    [pc |-> "none", op |-> "none", sensor_id |-> 0, stale |-> FALSE,
     interval_ms |-> 0, arg |-> [k \in {} |-> 0], was_running |-> FALSE,
     swapped |-> FALSE]

\* no generation cycle is under way undisturbed
NoTick == [by |-> "none", offset0 |-> 0]

NoThreads == [t \in Threads |-> NoThread]

\* the caller takes the result (or the exception) of the operation
take_result ==
    /\ ~Idle
    /\ call' = [call EXCEPT !.op = "idle", !.sensor_id = 0, !.limits = NoLimits]
    /\ value' = NoValue
    /\ raw' = NoRaw
    /\ raised' = "None"
    /\ before' = _scenario
    /\ UNCHANGED <<config, _scenario, run, pureVars, _registers, genVars>>

Init ==
    /\ config \in Configs
    /\ _scenario = NewScenario(ScenarioClass("normal"), config, {})
    /\ call = [op |-> "idle", name |-> "normal", sensor_id |-> 0,
               limits |-> NoLimits]
    /\ value = NoValue
    /\ raw = NoRaw
    /\ raised = "None"
    /\ before = _scenario
    /\ run = NoRun
    /\ gen = NoGenerator
    /\ thr = NoThreads
    /\ tick = NoTick
    /\ fn = "none"
    /\ args = <<>>
    /\ ret = "none"
    /\ _registers = _init_registers

Next ==
    \/ \E name \in Names, extra \in ExtraKwargs, offline_draw \in OfflineDraws :
          /\ ScenarioClass(name) = "PartialOfflineScenario" \/ offline_draw = {}
          /\ get_scenario(name, extra, offline_draw)
    \/ \E sensor_id \in SensorIds \cup {BeyondDraw}, limits \in LimitsSet :
          /\ sensor_id \in SensorIds \/ _scenario.cls = "PartialOfflineScenario"
          /\ get_value(sensor_id, limits)
    \/ take_result

Spec == Init /\ [][Next]_vars

(***************************************************************************)
(* A generator (RegisterGenerator, CurrentGenerator) and its threads: the  *)
(* background loops started by start() and one request thread of the API.  *)
(* A thread is inside get_value from the step that enters it to the step   *)
(* that returns; the body of get_value is the step of the engine above.    *)
(***************************************************************************)
\* join(timeout=2.0), in milliseconds
JoinTimeoutMs == 2000

\* the interval of the default configuration, in milliseconds
DefaultIntervalMs == 1000

\* the scenario names the generator is switched to: variants with private
\* state (a drift offset, an iteration counter, a failed set), one without,
\* and a name that is not registered
GeneratorNames ==
    {"normal", "drift_up", "sine", "sensor_failure", "not_a_real_name"}

\* what update_config may be handed: a longer interval, another scenario
\* with a sensor put on the configured offline list
NewConfigs ==
    {[interval_ms |-> 3000],
     [scenario |-> "drift_down", offline_sensors |-> {1}]}

\* _get_limits_dict
GeneratorLimits == DefaultLimits

\* the scalar drift offset of an instance (0 for an instance without one)
Offset(s) == IF "_current_offset" \in DOMAIN s THEN s._current_offset ELSE 0

\* thread t is in a generation cycle, or asleep after one
InTick(t) == thr[t].pc \in {"get_value", "sleep"}

\* the result of the engine's step is taken by its caller
Taken ==
    /\ call' = [call EXCEPT !.op = "idle", !.sensor_id = 0, !.limits = NoLimits]
    /\ value' = NoValue
    /\ raw' = NoRaw
    /\ raised' = "None"
    /\ before' = _scenario

\* the sensors after sensor k for which the cycle calls get_value: those
\* up to sensor_count that are not on the configured offline list
Called(k) == {i \in (k + 1)..gen.sensor_count : i \notin config.offline_sensors}

\* thread t after sensor k of its cycle: it enters get_value of the current
\* instance for the next sensor that is called, or ends the cycle: a loop
\* sleeps, a request returns
After(t, k) ==
    IF Called(k) # {}
    THEN [thr[t] EXCEPT !.pc = "get_value", !.stale = FALSE,
                        !.sensor_id = CHOOSE i \in Called(k) :
                                          \A j \in Called(k) : i <= j]
    ELSE IF t \in LoopThreads
    THEN [thr[t] EXCEPT !.pc = "sleep", !.stale = FALSE, !.sensor_id = 0,
                        !.swapped = FALSE]
    ELSE NoThread

\* thread t begins a generation cycle (_update_registers,
\* generate_current_json) at sensor 1; the cycle is a tick of its own if no
\* other thread is in a cycle, or asleep after one
BeginCycle(t, op) ==
    /\ thr' = [thr EXCEPT ![t] = IF After(t, 0).pc = "none" THEN NoThread
                                 ELSE [After(t, 0) EXCEPT !.op = op]]
    /\ tick' = IF After(t, 0).pc # "none" /\ \A w \in Threads \ {t} : ~InTick(w)
               THEN [by |-> t, offset0 |-> Offset(_scenario)]
               ELSE NoTick

\* the tick after thread t has gone on from sensor k: over with the cycle
\* of a request
TickAfter(t, k) ==
    IF tick.by = t /\ After(t, k).pc = "none" THEN NoTick ELSE tick

\* while self._running: the loop begins a cycle, or the thread ends
loop_test(t) ==
    /\ Idle
    /\ thr[t].pc = "while"
    /\ IF gen._running
       THEN BeginCycle(t, "loop")
       ELSE thr' = [thr EXCEPT ![t] = NoThread] /\ tick' = tick
    /\ UNCHANGED <<scenarioVars, gen, pureVars, _registers>>

\* the body of get_value runs for thread t
thread_get_value(t) ==
    /\ thr[t].pc = "get_value"
    /\ ~thr[t].stale
    /\ get_value(thr[t].sensor_id, GeneratorLimits)

\* get_value returns to thread t, which goes on with its cycle
get_value_returns(t) ==
    /\ call.op = "get_value"
    /\ thr[t].pc = "get_value"
    /\ ~thr[t].stale
    /\ thr[t].sensor_id = call.sensor_id
    /\ Taken
    /\ thr' = [thr EXCEPT ![t] =
                  [After(t, thr[t].sensor_id) EXCEPT !.swapped = FALSE]]
    /\ tick' = TickAfter(t, thr[t].sensor_id)
    /\ UNCHANGED <<config, _scenario, run, gen, pureVars, _registers>>

\* get_value returns to a thread that entered it on an instance replaced
\* since: the call has changed the discarded instance only, and the sensors
\* left in the cycle are read from self._scenario as it is now
stale_get_value_returns(t) ==
    /\ Idle
    /\ thr[t].pc = "get_value"
    /\ thr[t].stale
    /\ thr' = [thr EXCEPT ![t] =
                  [After(t, thr[t].sensor_id) EXCEPT
                      !.swapped = (After(t, thr[t].sensor_id).pc = "get_value")]]
    /\ tick' = TickAfter(t, thr[t].sensor_id)
    /\ UNCHANGED <<scenarioVars, gen, pureVars, _registers>>

\* time.sleep(interval_sec) is over
loop_wake(t) ==
    /\ Idle
    /\ thr[t].pc = "sleep"
    /\ thr' = [thr EXCEPT ![t].pc = "while"]
    /\ tick' = IF tick.by = t THEN NoTick ELSE tick
    /\ UNCHANGED <<scenarioVars, gen, pureVars, _registers>>

\* the slot a new threading.Thread takes
FreeSlot == IF thr["loop1"].pc = "none" THEN "loop1" ELSE "loop2"

\* a loop thread as start() starts it: _generation_loop reads its interval
\* from the configuration and goes to the test of _running
NewLoop == [NoThread EXCEPT !.pc = "while", !.op = "loop",
                            !.interval_ms = gen.interval_ms]

\* start(): nothing while _running; otherwise _running is set and a new
\* loop thread started
start ==
    /\ Idle
    /\ thr["request"].pc = "none"
    /\ IF gen._running
       THEN UNCHANGED <<gen, thr>>
       ELSE /\ thr[FreeSlot].pc = "none"
            /\ gen' = [gen EXCEPT !._running = TRUE, !._thread = FreeSlot]
            /\ thr' = [thr EXCEPT ![FreeSlot] = NewLoop]
    /\ UNCHANGED <<scenarioVars, tick, pureVars, _registers>>

\* stop(): _running is cleared; with a thread to join the caller waits
stop ==
    /\ Idle
    /\ thr["request"].pc = "none"
    /\ gen' = [gen EXCEPT !._running = FALSE]
    /\ thr' = IF gen._thread = "None" THEN thr
              ELSE [thr EXCEPT !["request"].pc = "join", !["request"].op = "stop"]
    /\ UNCHANGED <<scenarioVars, tick, pureVars, _registers>>

\* a thread that is in a cycle or asleep, and sleeps longer between two
\* tests of _running than the join waits, outlasts the join
JoinMayTimeOut(t) == InTick(t) /\ thr[t].interval_ms > JoinTimeoutMs

\* _merge_config(self.config, new_config): the generator's settings after
MergedGen(new_config) ==
    [gen EXCEPT !.interval_ms = KwGet(new_config, "interval_ms", gen.interval_ms),
                !.scenario = KwGet(new_config, "scenario", gen.scenario)]

\* _merge_config(self.config, new_config): the baseline bundle after
MergedConfig(new_config) ==
    [config EXCEPT !.offline_sensors =
                       KwGet(new_config, "offline_sensors", config.offline_sensors)]

\* self._thread.join(timeout=2.0) returns, the thread ended or not, and
\* _thread is forgotten; update_config goes on to merge the configuration
join_returns ==
    /\ Idle
    /\ thr["request"].pc = "join"
    /\ thr[gen._thread].pc = "none" \/ JoinMayTimeOut(gen._thread)
    /\ IF thr["request"].op = "update_config"
       THEN /\ gen' = [MergedGen(thr["request"].arg) EXCEPT !._thread = "None"]
            /\ config' = MergedConfig(thr["request"].arg)
            /\ thr' = [thr EXCEPT !["request"].pc = "init"]
       ELSE /\ gen' = [gen EXCEPT !._thread = "None"]
            /\ config' = config
            /\ thr' = [thr EXCEPT !["request"] = NoThread]
    /\ UNCHANGED <<_scenario, call, value, raised, raw, before, run, tick, pureVars, _registers>>

\* update_config(new_config) up to _init_scenario(): was_running is read;
\* a running generator is stopped (and its thread joined), one that is not
\* running has the configuration merged at once
update_config(new_config) ==
    /\ Idle
    /\ thr["request"].pc = "none"
    /\ IF gen._running /\ gen._thread # "None"
       THEN /\ gen' = [gen EXCEPT !._running = FALSE]
            /\ config' = config
            /\ thr' = [thr EXCEPT !["request"] =
                          [NoThread EXCEPT !.op = "update_config", !.pc = "join",
                                           !.arg = new_config,
                                           !.was_running = TRUE]]
       ELSE /\ gen' = [MergedGen(new_config) EXCEPT !._running = FALSE]
            /\ config' = MergedConfig(new_config)
            /\ thr' = [thr EXCEPT !["request"] =
                          [NoThread EXCEPT !.op = "update_config", !.pc = "init",
                                           !.was_running = gen._running]]
    /\ UNCHANGED <<_scenario, call, value, raised, raw, before, run, tick, pureVars, _registers>>

\* set_scenario(scenario_name) up to _init_scenario()
set_scenario(scenario_name) ==
    /\ Idle
    /\ thr["request"].pc = "none"
    /\ gen' = [gen EXCEPT !.scenario = scenario_name]
    /\ thr' = [thr EXCEPT !["request"].pc = "init", !["request"].op = "set_scenario"]
    /\ UNCHANGED <<scenarioVars, tick, pureVars, _registers>>

\* _init_scenario(): get_scenario with the nine baseline parameters of the
\* configuration; the instance replaces the current one
_init_scenario(offline_draw) ==
    /\ thr["request"].pc = "init"
    /\ get_scenario(gen.scenario, [k \in {} |-> 0], offline_draw)

\* _init_scenario() has returned: the threads that are inside get_value run
\* on the replaced instance; update_config ends with start() if the
\* generator was running, set_scenario returns
init_returns ==
    /\ call.op = "get_scenario"
    /\ thr["request"].pc = "init"
    /\ Taken
    /\ LET restart == thr["request"].was_running /\ ~gen._running
       IN  /\ restart => thr[FreeSlot].pc = "none"
           /\ gen' = IF restart
                     THEN [gen EXCEPT !._running = TRUE, !._thread = FreeSlot]
                     ELSE gen
           /\ thr' = [u \in Threads |->
                        IF u = "request" THEN NoThread
                        ELSE IF restart /\ u = FreeSlot THEN NewLoop
                        ELSE [thr[u] EXCEPT !.stale = (thr[u].pc = "get_value")]]
    /\ tick' = NoTick
    /\ UNCHANGED <<config, _scenario, run, pureVars, _registers>>

\* generate_once() and get_preview() of CurrentGenerator: the request
\* thread runs generate_current_json itself
generate_current_json(op) ==
    /\ Idle
    /\ gen.kind = "CurrentGenerator"
    /\ thr["request"].pc = "none"
    /\ BeginCycle("request", op)
    /\ UNCHANGED <<scenarioVars, gen, pureVars, _registers>>

\* the generator as constructed: the noise-free baseline, the default
\* interval, not running
InitGen ==
    /\ config \in {c \in Configs : c.temp_variation = 0}
    /\ _scenario = NewScenario(ScenarioClass("normal"), config, {})
    /\ call = [op |-> "idle", name |-> "normal", sensor_id |-> 0,
               limits |-> NoLimits]
    /\ value = NoValue
    /\ raw = NoRaw
    /\ raised = "None"
    /\ before = _scenario
    /\ run = NoRun
    /\ \E kind \in {"RegisterGenerator", "CurrentGenerator"},
          sensor_count \in SensorIds :
          gen = [kind |-> kind, scenario |-> "normal",
                 interval_ms |-> DefaultIntervalMs,
                 sensor_count |-> sensor_count, _running |-> FALSE,
                 _thread |-> "None"]
    /\ thr = NoThreads
    /\ tick = NoTick
    /\ fn = "none"
    /\ args = <<>>
    /\ ret = "none"
    /\ _registers = _init_registers

NextGen ==
    \/ start
    \/ stop
    \/ join_returns
    \/ \E new_config \in NewConfigs : update_config(new_config)
    \/ \E scenario_name \in GeneratorNames : set_scenario(scenario_name)
    \/ _init_scenario({})
    \/ init_returns
    \/ \E op \in {"generate_once", "get_preview"} : generate_current_json(op)
    \/ \E t \in Threads :
          \/ loop_test(t)
          \/ thread_get_value(t)
          \/ get_value_returns(t)
          \/ stale_get_value_returns(t)
          \/ loop_wake(t)

SpecGen == InitGen /\ [][NextGen]_vars

(***************************************************************************)
(* The two pure helpers of BaseScenario called directly: the arguments are *)
(* drawn at the start and the call computes the result.                    *)
(***************************************************************************)
Statuses == {"normal", "warning", "alarm", "offline"}

\* limit tuples <<min, max, warning_delta, alarm_delta>>: the deltas in and
\* out of order, zero and negative
LimitTuples ==
    {<<lo, hi, wd, ad>> : lo \in {-1000}, hi \in {-1000, 4000},
                          wd \in {-300, 0, 300, 700}, ad \in {-100, 0, 500}}

\* the values at, just below and just above each edge of a limit tuple,
\* and the values of the documented examples
ValuesAround(t) ==
    {b + e : b \in {t[1] - t[4], t[1] - t[3], t[1], t[2], t[2] + t[3], t[2] + t[4]},
             e \in {-1, 0, 1}}
    \cup {3900, 4000, 4100, 4400, 4500, 4600, -1600}

calculate_status_call ==
    /\ fn = "_calculate_status"
    /\ ret = "pending"
    /\ ret' = _calculate_status(args[1], args[2], args[3], args[4], args[5])
    /\ UNCHANGED <<scenarioVars, genVars, fn, args, _registers>>

get_combined_status_call ==
    /\ fn = "_get_combined_status"
    /\ ret = "pending"
    /\ ret' = _get_combined_status(args[1], args[2])
    /\ UNCHANGED <<scenarioVars, genVars, fn, args, _registers>>

InitPure ==
    /\ config \in {c \in Configs : c.temp_base = 2200}
    /\ _scenario = NewScenario(ScenarioClass("normal"), config, {})
    /\ call = [op |-> "idle", name |-> "normal", sensor_id |-> 0,
               limits |-> NoLimits]
    /\ value = NoValue
    /\ raw = NoRaw
    /\ raised = "None"
    /\ before = _scenario
    /\ run = NoRun
    /\ gen = NoGenerator
    /\ thr = NoThreads
    /\ tick = NoTick
    /\ ret = "pending"
    /\ _registers = _init_registers
    /\ \/ /\ fn = "_calculate_status"
          /\ \E t \in LimitTuples : \E v \in ValuesAround(t) :
                args = <<v, t[1], t[2], t[3], t[4]>>
       \/ /\ fn = "_get_combined_status"
          /\ args \in Statuses \X Statuses

NextPure == calculate_status_call \/ get_combined_status_call

SpecPure == InitPure /\ [][NextPure]_vars

(***************************************************************************)
(* VirtualRegisters driven by any caller.                                  *)
(***************************************************************************)
\* the readings <<temperature, humidity>> written: the ends of the 16-bit
\* signed and unsigned ranges, a small negative temperature, an everyday
\* reading, one past both ranges, and one with a second decimal
Readings ==
    {<<-327680, 655350>>, <<327670, 0>>, <<-10, 4500>>, <<2230, 4510>>,
     <<327680, 655360>>, <<-2235, 4505>>}

\* the status codes _update_registers writes: both OK or both faulted
StatusCodes == {<<0, 0>>, <<1, 1>>}

set_sensor_values(sensor_id, temperature, humidity, temp_status, hum_status) ==
    /\ _registers' =
          [a \in DOMAIN _registers \cup SensorAddresses(sensor_id) |->
              IF a = temp_addr(sensor_id) THEN Word16(IntTimes10(temperature))
              ELSE IF a = hum_addr(sensor_id) THEN Word16(IntTimes10(humidity))
              ELSE IF a = temp_status_addr(sensor_id) THEN temp_status
              ELSE IF a = hum_status_addr(sensor_id) THEN hum_status
              ELSE _registers[a]]
    /\ fn' = "set_sensor_values"
    /\ args' = <<sensor_id, temperature, humidity, temp_status, hum_status>>
    /\ ret' = "None"
    /\ UNCHANGED <<scenarioVars, genVars>>

get_sensor_values(sensor_id) ==
    /\ fn' = "get_sensor_values"
    /\ args' = <<sensor_id>>
    /\ ret' = SensorValuesOf(_registers, sensor_id)
    /\ UNCHANGED <<scenarioVars, genVars, _registers>>

InitReg ==
    /\ config \in {c \in Configs : c.temp_base = 2200 /\ c.temp_variation = 0}
    /\ _scenario = NewScenario(ScenarioClass("normal"), config, {})
    /\ call = [op |-> "idle", name |-> "normal", sensor_id |-> 0,
               limits |-> NoLimits]
    /\ value = NoValue
    /\ raw = NoRaw
    /\ raised = "None"
    /\ before = _scenario
    /\ run = NoRun
    /\ gen = NoGenerator
    /\ thr = NoThreads
    /\ tick = NoTick
    /\ fn = "none"
    /\ args = <<>>
    /\ ret = "none"
    /\ _registers = _init_registers

NextReg ==
    \/ \E sensor_id \in SensorIds, r \in Readings, st \in StatusCodes :
          set_sensor_values(sensor_id, r[1], r[2], st[1], st[2])
    \/ \E sensor_id \in SensorIds : get_sensor_values(sensor_id)

SpecReg == InitReg /\ [][NextReg]_vars

(***************************************************************************)
(* Properties of the classifier and of combine (under SpecPure).           *)
(***************************************************************************)
\* the result of a finished direct call of _calculate_status
StatusOf(v, lo, hi, wd, ad) ==
    fn = "_calculate_status" /\ ret # "pending" /\ args = <<v, lo, hi, wd, ad>>

Classified_done == fn = "_calculate_status" /\ ret # "pending"

InAlarm == args[1] < args[2] - args[5] \/ args[1] > args[3] + args[5]
OutOfBand == args[1] < args[2] \/ args[1] > args[3]
BeyondWarning == args[1] < args[2] - args[4] \/ args[1] > args[3] + args[4]

\* the documented examples for min=-10, max=40, warning_delta=3, alarm_delta=5
ClassifyExamples ==
    /\ StatusOf(3900, -1000, 4000, 300, 500) => ret = "normal"
    /\ StatusOf(4000, -1000, 4000, 300, 500) => ret = "normal"
    /\ StatusOf(4100, -1000, 4000, 300, 500) => ret = "warning"
    /\ StatusOf(4400, -1000, 4000, 300, 500) => ret = "warning"
    /\ StatusOf(4500, -1000, 4000, 300, 500) => ret = "warning"
    /\ StatusOf(4600, -1000, 4000, 300, 500) => ret = "alarm"
    /\ StatusOf(-1600, -1000, 4000, 300, 500) => ret = "alarm"

\* C1 as stated: alarm iff beyond the alarm margin; otherwise warning iff
\* the value is out of band; otherwise normal; with the documented examples.
\* It fails for a negative warning_delta, where an in-band value beyond
\* max + warning_delta is a warning.
C1_AsStated ==
    Classified_done =>
        /\ ret = "alarm" <=> InAlarm
        /\ ret = "warning" <=> ~InAlarm /\ OutOfBand
        /\ ret = "normal" <=> ~InAlarm /\ ~OutOfBand
        /\ ClassifyExamples

\* C1 (amended): _calculate_status returns alarm iff value < min - alarm_delta
\* or value > max + alarm_delta; otherwise warning iff the value is beyond
\* the warning margin or out of band (for warning_delta >= 0: iff it is out
\* of band); otherwise normal.  All comparisons are strict: 39 and 40 are
\* normal, 41, 44 and 45 warning, 46 and -16 alarm for -10/40/3/5.
C1_Classifier ==
    Classified_done =>
        /\ ret = "alarm" <=> InAlarm
        /\ ret = "warning" <=> ~InAlarm /\ (BeyondWarning \/ OutOfBand)
        /\ ret = "normal" <=> ~InAlarm /\ ~BeyondWarning /\ ~OutOfBand
        /\ args[4] >= 0 => (ret = "warning" <=> ~InAlarm /\ OutOfBand)
        /\ ClassifyExamples

\* a value exactly on the alarm edge max + alarm_delta, above the band, has
\* been classified: a warning
C1_Witness ==
    /\ Classified_done
    /\ args[4] >= 0
    /\ args[1] = args[3] + args[5]
    /\ args[1] > args[3]
    /\ ret = "warning"

\* C2: _get_combined_status returns alarm if either argument is alarm, else
\* warning if either is warning, else normal; the result is the same with
\* the arguments swapped, and it is never offline, whatever the arguments.
C2_Combine ==
    (fn = "_get_combined_status" /\ ret # "pending") =>
        /\ ret = (IF "alarm" \in {args[1], args[2]} THEN "alarm"
                  ELSE IF "warning" \in {args[1], args[2]} THEN "warning"
                  ELSE "normal")
        /\ ret = _get_combined_status(args[2], args[1])
        /\ ret # "offline"

\* combine has been applied to (offline, warning): the result is warning
C2_Witness ==
    /\ fn = "_get_combined_status"
    /\ args = <<"offline", "warning">>
    /\ ret = "warning"

(***************************************************************************)
(* Properties of the scenario engine (under Spec).                         *)
(***************************************************************************)
\* the last get_value returned a SensorValue
Returned == call.op = "get_value" /\ raised = "None"

\* the classifier's contract: alarm beyond the alarm margin, else warning
\* beyond the warning margin or out of band, else normal
classify(v, lo, hi, warning_delta, alarm_delta) ==
    IF v < lo - alarm_delta \/ v > hi + alarm_delta THEN "alarm"
    ELSE IF v < lo - warning_delta \/ v > hi + warning_delta \/ v < lo \/ v > hi
    THEN "warning"
    ELSE "normal"

\* combine's contract
combine(temp_status, hum_status) ==
    IF "alarm" \in {temp_status, hum_status} THEN "alarm"
    ELSE IF "warning" \in {temp_status, hum_status} THEN "warning"
    ELSE "normal"

\* the documented defaults of the limit keys
DocumentedDefaults ==
    [temp_min |-> -1000, temp_max |-> 4000, temp_warning_delta |-> 300,
     temp_alarm_delta |-> 500, hum_min |-> 2000, hum_max |-> 8000,
     hum_warning_delta |-> 500, hum_alarm_delta |-> 1000]

\* the limits of the last call, its missing keys filled by the defaults
Filled(key) ==
    IF key \in DOMAIN call.limits THEN call.limits[key] ELSE DocumentedDefaults[key]

\* the statuses the classifier's contract gives the returned values under
\* the (filled) limits of the call
TempStatusOfReturned ==
    classify(value.temperature, Filled("temp_min"), Filled("temp_max"),
             Filled("temp_warning_delta"), Filled("temp_alarm_delta"))

HumStatusOfReturned ==
    classify(value.humidity, Filled("hum_min"), Filled("hum_max"),
             Filled("hum_warning_delta"), Filled("hum_alarm_delta"))

\* the variants that classify against limits
ClassifyingClasses ==
    {"NormalScenario", "DriftUpScenario", "DriftDownScenario", "SineScenario",
     "IntermittentScenario", "PartialOfflineScenario", "DailyCycleScenario",
     "HVACControlScenario", "DoorOpenScenario", "SensorFailureScenario"}

\* the last get_value returned a classified reading: not offline, and not
\* the garbage of a failed sensor
ReturnedClassified ==
    /\ Returned
    /\ _scenario.cls \in ClassifyingClasses
    /\ value.combined_status # "offline"
    /\ value.modbus_error = "None"

\* C3: in every SensorValue returned by any variant, either temp_status,
\* hum_status and combined_status are all offline, or none of them is and
\* combined_status = combine(temp_status, hum_status).
C3_CombinedDerived ==
    Returned =>
        \/ /\ value.temp_status = "offline"
           /\ value.hum_status = "offline"
           /\ value.combined_status = "offline"
        \/ /\ value.temp_status \in {"normal", "warning", "alarm"}
           /\ value.hum_status \in {"normal", "warning", "alarm"}
           /\ value.combined_status = combine(value.temp_status, value.hum_status)

\* a timeout fault has been returned, all three statuses offline
C3_Witness ==
    /\ Returned
    /\ _scenario.cls = "TimeoutScenario"
    /\ value.modbus_error = "timeout"
    /\ value.combined_status = "offline"

\* C4 as stated: every returned reading whose status is not offline lies
\* within [temp_min, temp_max] and [hum_min, hum_max] of the instance.  It
\* fails for bounds that are not multiples of 0.1 (the rounding follows the
\* clamp) and for the unclamped garbage of a failed sensor.
C4_AsStated ==
    (Returned /\ value.combined_status # "offline") =>
        /\ _scenario.temp_min <= value.temperature
        /\ value.temperature <= _scenario.temp_max
        /\ _scenario.hum_min <= value.humidity
        /\ value.humidity <= _scenario.hum_max

\* C4 (amended): every returned reading that is not offline and carries no
\* fault code lies within the bounds rounded to one decimal, hence within
\* the bounds themselves when they are multiples of 0.1; the garbage of a
\* failed sensor (fault invalid_data) is not clamped and lies in [-40, 85]
\* and [0, 100].
C4_ClampInvariant ==
    (Returned /\ value.combined_status # "offline") =>
        IF value.modbus_error = "invalid_data"
        THEN /\ -4000 <= value.temperature /\ value.temperature <= 8500
             /\ 0 <= value.humidity /\ value.humidity <= 10000
        ELSE /\ value.modbus_error = "None"
             /\ Round1(_scenario.temp_min) <= value.temperature
             /\ value.temperature <= Round1(_scenario.temp_max)
             /\ Round1(_scenario.hum_min) <= value.humidity
             /\ value.humidity <= Round1(_scenario.hum_max)
             /\ _scenario.temp_min % 10 = 0 => _scenario.temp_min <= value.temperature
             /\ _scenario.temp_max % 10 = 0 => value.temperature <= _scenario.temp_max
             /\ _scenario.hum_min % 10 = 0 => _scenario.hum_min <= value.humidity
             /\ _scenario.hum_max % 10 = 0 => value.humidity <= _scenario.hum_max

\* a reading generated above temp_max has been returned, clamped
C4_Witness ==
    /\ Returned
    /\ value.modbus_error = "None"
    /\ value.combined_status # "offline"
    /\ raw.temp > _scenario.temp_max
    /\ value.temperature = Round1(_scenario.temp_max)

\* C5: in the classifying variants each returned reading that is not offline
\* has temp_status and hum_status equal to the classifier's result for the
\* returned (clamped, one-decimal) temperature and humidity under the limits
\* of the call; a raw 40.04 with max = 40 is returned as 40.0, normal.
C5_RoundThenClassify ==
    ReturnedClassified =>
        /\ value.temperature % 10 = 0
        /\ value.humidity % 10 = 0
        /\ value.temp_status = TempStatusOfReturned
        /\ value.hum_status = HumStatusOfReturned
        /\ (raw.temp = 4004 /\ _scenario.temp_max >= 4004 /\ Filled("temp_max") = 4000
                /\ Filled("temp_min") <= 4000 /\ Filled("temp_alarm_delta") >= 0
                /\ Filled("temp_warning_delta") >= 0)
              => value.temperature = 4000 /\ value.temp_status = "normal"

\* a raw temperature of 40.04 has been returned as 40.0 under max = 40
C5_Witness ==
    /\ ReturnedClassified
    /\ raw.temp = 4004
    /\ Filled("temp_max") = 4000
    /\ value.temperature = 4000
    /\ value.temp_status = "normal"

\* C6: in SensorFailureScenario a get_value call never takes a sensor id out
\* of the failed set, and a call for an id that was in it returns either
\* offline/offline/offline with fault sensor_failure or alarm/alarm/alarm
\* with fault invalid_data.
C6_FailureIrreversible ==
    (call.op = "get_value" /\ _scenario.cls = "SensorFailureScenario") =>
        /\ before._failed_sensors \subseteq _scenario._failed_sensors
        /\ call.sensor_id \in before._failed_sensors =>
              \/ value = SensorValue(0, 0, "offline", "offline", "offline",
                                     "sensor_failure")
              \/ /\ value.temp_status = "alarm"
                 /\ value.hum_status = "alarm"
                 /\ value.combined_status = "alarm"
                 /\ value.modbus_error = "invalid_data"

\* a sensor that had failed before the call, with another failed sensor
\* beside it, has been read again
C6_Witness ==
    /\ Returned
    /\ _scenario.cls = "SensorFailureScenario"
    /\ call.sensor_id \in before._failed_sensors
    /\ before._failed_sensors # {call.sensor_id}
    /\ value.modbus_error = "invalid_data"

\* C7: get_scenario(name) holds an instance of the class registered for
\* name when name is registered, and of NormalScenario for any other name;
\* it never raises.
C7_RegistryFallback ==
    /\ call.name \in DOMAIN SCENARIOS => _scenario.cls = SCENARIOS[call.name]
    /\ call.name \notin DOMAIN SCENARIOS => _scenario.cls = "NormalScenario"
    /\ call.op = "get_scenario" => raised = "None"

\* get_scenario has been called with a name that is not registered
C7_Witness ==
    /\ call.op = "get_scenario"
    /\ call.name = "not_a_real_name"
    /\ _scenario.cls = "NormalScenario"

\* C8: when keys are missing from the limits mapping of a call, get_value
\* of a classifying variant raises no KeyError and the statuses are those
\* the classifier gives under the limits filled with the defaults
\* -10/40/3/5 and 20/80/5/10.
C8_LimitDefaults ==
    (call.op = "get_value" /\ DOMAIN call.limits # DOMAIN DocumentedDefaults
        /\ _scenario.cls \in ClassifyingClasses) =>
        /\ raised # "KeyError"
        /\ ReturnedClassified =>
              /\ value.temp_status = TempStatusOfReturned
              /\ value.hum_status = HumStatusOfReturned
              /\ value.combined_status = combine(TempStatusOfReturned, HumStatusOfReturned)

\* a call with the empty limits mapping has returned a reading that the
\* default band 20..80 of the humidity makes normal and the default band
\* -10..40 of the temperature makes a warning
C8_Witness ==
    /\ ReturnedClassified
    /\ DOMAIN call.limits = {}
    /\ value.temperature > 4000
    /\ value.temp_status = "warning"
    /\ value.hum_status = "normal"

\* C9 as stated: get_value returns a SensorValue and never raises.  It
\* fails for SineScenario(period=0): ZeroDivisionError.
C9_NeverRaises ==
    call.op = "get_value" => raised = "None" /\ value # NoValue

\* C10: a get_value call of DriftUpScenario with drift_rate >= 0 never
\* decreases _current_offset, and one of DriftDownScenario never increases it.
C10_DriftMonotonic ==
    (call.op = "get_value" /\ _scenario.cls \in {"DriftUpScenario", "DriftDownScenario"}
        /\ _scenario.drift_rate >= 0) =>
        /\ _scenario.cls = "DriftUpScenario" =>
              _scenario._current_offset >= before._current_offset
        /\ _scenario.cls = "DriftDownScenario" =>
              _scenario._current_offset <= before._current_offset

\* the second call of a DriftUpScenario with rate 0.1 has moved the offset
\* from 0.1 to 0.2
C10_Witness ==
    /\ Returned
    /\ _scenario.cls = "DriftUpScenario"
    /\ _scenario.drift_rate = 10
    /\ before._current_offset = 10
    /\ _scenario._current_offset = 20

\* the bounds a clamp keeps a value in
clamped(v, lo, hi) == IF v < lo THEN lo ELSE IF v > hi THEN hi ELSE v

\* the noise-free fixture: a NormalScenario with both variations 0
Fixture ==
    /\ _scenario.cls = "NormalScenario"
    /\ _scenario.temp_variation = 0
    /\ _scenario.hum_variation = 0

\* C12: a NormalScenario with temp_variation = 0 and hum_variation = 0
\* returns, for a sensor id and limits, always the same SensorValue:
\* temperature round1(clamp(temp_base + 0.3 * (sensor_id - 1))), humidity
\* round1(clamp(hum_base)) and the statuses classify gives them; for 22.0 /
\* 45.0, sensor 1 and the default limits it is 22.0 / 45.0, all normal.
C12_DeterministicFixture ==
    (Returned /\ Fixture) =>
        /\ value.temperature =
              Round1(clamped(_scenario.temp_base + (call.sensor_id - 1) * 30,
                             _scenario.temp_min, _scenario.temp_max))
        /\ value.humidity =
              Round1(clamped(_scenario.hum_base, _scenario.hum_min, _scenario.hum_max))
        /\ value.temp_status = TempStatusOfReturned
        /\ value.hum_status = HumStatusOfReturned
        /\ value.combined_status = combine(TempStatusOfReturned, HumStatusOfReturned)
        /\ value.modbus_error = "None"
        /\ (_scenario.temp_base = 2200 /\ _scenario.hum_base = 4500
                /\ call.sensor_id = 1 /\ call.limits = DocumentedDefaults)
              => value = SensorValue(2200, 4500, "normal", "normal", "normal", "None")

\* the fixture has answered for sensor 2 under the narrow limits: 22.3 and
\* 45.0, both inside their bands
C12_Witness ==
    /\ Returned
    /\ Fixture
    /\ call.sensor_id = 2
    /\ DOMAIN call.limits = DOMAIN DocumentedDefaults
    /\ call.limits # DocumentedDefaults
    /\ value = SensorValue(2230, 4500, "normal", "normal", "normal", "None")

\* the fault codes of an offline reading
FaultCodes == {"timeout", "crc_error", "no_power", "sensor_failure"}

\* C13: every returned SensorValue with an offline status has temperature
\* 0.0 and humidity 0.0 and one of the fault codes timeout, crc_error,
\* no_power, sensor_failure; OfflineScenario returns offline / offline /
\* offline, timeout, 0.0 / 0.0 on every call.
C13_OfflineSentinel ==
    /\ (Returned /\ "offline" \in {value.temp_status, value.hum_status,
                                     value.combined_status}) =>
            /\ value.temperature = 0
            /\ value.humidity = 0
            /\ value.modbus_error \in FaultCodes
    /\ (call.op = "get_value" /\ _scenario.cls = "OfflineScenario") =>
            value = SensorValue(0, 0, "offline", "offline", "offline", "timeout")

\* a failed sensor has answered offline with fault sensor_failure
C13_Witness ==
    /\ Returned
    /\ _scenario.cls = "SensorFailureScenario"
    /\ value.combined_status = "offline"
    /\ value.modbus_error = "sensor_failure"
    /\ value.temperature = 0

\* the variants whose normal path does not classify
ForcedClasses == {"TimeoutScenario", "CRCErrorScenario", "PowerOutageScenario"}

\* C14: in TimeoutScenario, CRCErrorScenario and PowerOutageScenario a call
\* either takes the fault path (offline, with a fault code) or returns
\* temp_status = hum_status = combined_status = normal with no fault code,
\* whatever the limits and the generated value.
C14_ForcedNormal ==
    (Returned /\ _scenario.cls \in ForcedClasses) =>
        \/ /\ value.modbus_error \in {"timeout", "crc_error", "no_power"}
           /\ value.combined_status = "offline"
        \/ /\ value.modbus_error = "None"
           /\ value.temp_status = "normal"
           /\ value.hum_status = "normal"
           /\ value.combined_status = "normal"

\* TimeoutScenario has returned as normal a temperature that the limits of
\* the call put in alarm
C14_Witness ==
    /\ Returned
    /\ _scenario.cls = "TimeoutScenario"
    /\ value.modbus_error = "None"
    /\ TempStatusOfReturned = "alarm"
    /\ value.temp_status = "normal"
    /\ value.combined_status = "normal"

\* the last get_value was one of PowerOutageScenario
PowerCall == Returned /\ _scenario.cls = "PowerOutageScenario"

\* C15: with one get_value call per tick, an outage of PowerOutageScenario
\* lasts exactly the drawn duration, between 10 and 30 calls; every call of
\* the outage returns offline / offline / offline, no_power, 0.0 / 0.0; the
\* call that brings the countdown to 0 clears the power-off flag, and with
\* the flag clear a call is offline only if it triggers a new outage.
C15_OutageTimed ==
    PowerCall =>
        /\ before._power_off =>
              value = SensorValue(0, 0, "offline", "offline", "offline", "no_power")
        /\ value.combined_status = "offline" =>
              /\ value = SensorValue(0, 0, "offline", "offline", "offline", "no_power")
              /\ 10 <= run.drawn /\ run.drawn <= 30
              /\ 1 <= run.calls /\ run.calls <= run.drawn
              /\ _scenario._outage_timer = run.drawn - run.calls
              /\ _scenario._power_off <=> run.calls < run.drawn
              /\ ~before._power_off => run.calls = 1
        /\ value.combined_status # "offline" =>
              /\ ~before._power_off
              /\ ~_scenario._power_off
              /\ value.modbus_error = "None"

\* an outage drawn as 10 ticks has ended with its tenth offline call
C15_Witness ==
    /\ PowerCall
    /\ before._power_off
    /\ ~_scenario._power_off
    /\ value.modbus_error = "no_power"
    /\ run = [drawn |-> 10, calls |-> 10]

\* the last get_value was one of DoorOpenScenario
DoorCall == Returned /\ _scenario.cls = "DoorOpenScenario"

\* the centre of the open-door temperature
DoorCentre ==
    _scenario.temp_base + RoundDiv((_scenario.outside_temp - _scenario.temp_base) * 3, 10)

\* C16 as stated: with one get_value call per tick, an opening of
\* DoorOpenScenario gives open-door readings (centred on temp_base + 0.3 *
\* (outside_temp - temp_base)) for as many calls as the drawn duration,
\* between 5 and 15, and then the door is closed.  It fails: the call that
\* brings the countdown to 0 already returns a normal reading, so a
\* duration d gives d - 1 open-door readings.
C16_DoorDuration ==
    DoorCall =>
        /\ _scenario._door_open => Abs(raw.temp - DoorCentre) <= 200
        /\ (before._door_open /\ ~_scenario._door_open) =>
              /\ run.calls = run.drawn
              /\ 5 <= run.calls /\ run.calls <= 15

\* C17: the offline set of a PartialOfflineScenario is a subset of 1..10,
\* get_value never changes it (nor offline_sensors), a call is offline, with
\* fault timeout, exactly for the ids of the set and of offline_sensors, and
\* an id outside 1..10 that is not in offline_sensors is never offline.
C17_PartialOfflineFixed ==
    _scenario.cls = "PartialOfflineScenario" =>
        /\ _scenario._offline_sensors \subseteq 1..10
        /\ call.op = "get_value" =>
              /\ before._offline_sensors = _scenario._offline_sensors
              /\ before.offline_sensors = _scenario.offline_sensors
        /\ Returned =>
              /\ value.combined_status = "offline" <=>
                    call.sensor_id \in _scenario._offline_sensors
                                       \cup _scenario.offline_sensors
              /\ value.combined_status = "offline" => value.modbus_error = "timeout"
              /\ (call.sensor_id \notin 1..10
                     /\ call.sensor_id \notin _scenario.offline_sensors)
                    => value.combined_status # "offline"

\* sensor 11 has been read from an instance whose offline set holds 1 and
\* 10: a classified reading
C17_Witness ==
    /\ Returned
    /\ _scenario.cls = "PartialOfflineScenario"
    /\ _scenario._offline_sensors = {1, 10}
    /\ call.sensor_id = BeyondDraw
    /\ value.combined_status # "offline"

(***************************************************************************)
(* Properties of a generator and its threads (under SpecGen).              *)
(***************************************************************************)
\* a loop thread has finished a generation cycle that no other cycle and no
\* swap has overlapped, on a drift instance, with none of the N configured
\* sensors skipped as offline
TickDone ==
    /\ tick.by \in LoopThreads
    /\ (1 .. gen.sensor_count) \cap config.offline_sensors = {}
    /\ call.op # "get_scenario"
    /\ thr[tick.by].pc = "sleep"
    /\ _scenario.cls \in {"DriftUpScenario", "DriftDownScenario"}

\* C11 as stated: over one tick (one generation cycle, which calls
\* get_value for each of the N configured sensors) the offset of DriftUp
\* changes by exactly +drift_rate and that of DriftDown by exactly
\* -drift_rate, whatever N.  It fails: the offset moves with every
\* get_value call, N times in a tick.
C11_DriftPerTick ==
    TickDone =>
        Offset(_scenario) - tick.offset0 =
            (IF _scenario.cls = "DriftUpScenario" THEN _scenario.drift_rate
             ELSE -_scenario.drift_rate)

\* the private state of an instance as its constructor leaves it
FreshInstance(s) ==
    /\ s._iteration = 0
    /\ "_current_offset" \in DOMAIN s => s._current_offset = 0
    /\ "_hvac_on" \in DOMAIN s => ~s._hvac_on /\ s._current_temp = s.setpoint
    /\ "_door_open" \in DOMAIN s => ~s._door_open /\ s._door_timer = 0
    /\ "_power_off" \in DOMAIN s => ~s._power_off /\ s._outage_timer = 0
    /\ "_failed_sensors" \in DOMAIN s => s._failed_sensors = {}

\* C18: when set_scenario or update_config has run _init_scenario, the
\* generator holds an instance of the class registered for the configured
\* name, built from the configured baseline, in its initial state (drift
\* offset 0, iteration 0, HVAC off at setpoint, door closed, power on,
\* failed set empty), whatever the state of the instance before and also
\* when the name has not changed.
C18_FreshAfterSwap ==
    call.op = "get_scenario" =>
        /\ FreshInstance(_scenario)
        /\ _scenario.cls = ScenarioClass(gen.scenario)
        /\ call.name = gen.scenario
        /\ _scenario.temp_base = config.temp_base
        /\ _scenario.hum_base = config.hum_base
        /\ _scenario.offline_sensors = config.offline_sensors

\* set_scenario("drift_up") has replaced a drift_up instance that a loop
\* thread had driven to a positive offset, and the thread sleeps
C18_Witness ==
    /\ call.op = "get_scenario"
    /\ thr["request"].op = "set_scenario"
    /\ gen.scenario = "drift_up"
    /\ tick.by \in LoopThreads
    /\ thr[tick.by].pc = "sleep"
    /\ tick.offset0 > 0
    /\ _scenario.cls = "DriftUpScenario"
    /\ _scenario._current_offset = 0

\* the threads that are inside get_value of the generator's instance
Inside == {t \in Threads : thr[t].pc = "get_value" /\ ~thr[t].stale}

\* C19 as stated: at most one thread at a time is inside get_value of the
\* generator's scenario instance.  It fails: the background loop and a
\* request (generate_once, get_preview), or two loops, call it unguarded.
C19_SingleWriter == Cardinality(Inside) <= 1

\* the generation-loop threads that have been started and have not ended
ActiveLoops == {t \in LoopThreads : thr[t].pc # "none"}

\* C20 as stated: at most one generation-loop thread of a generator is
\* active at any time.  It fails: a join that times out leaves the old loop
\* alive, and the start() that follows sets _running again before the old
\* loop has tested it.
C20_SingleLoopThread == Cardinality(ActiveLoops) <= 1

\* the threads whose cycle has evaluated its last sensor on an instance
\* replaced since and is now evaluating the next on the generator's current
\* instance
Mixed == {t \in Threads : thr[t].pc = "get_value" /\ ~thr[t].stale
                             /\ thr[t].swapped}

\* C21 as stated: a tick that has started evaluates every configured
\* sensor, all of them by one and the same scenario instance, also when
\* set_scenario or update_config is invoked while the generator runs.  It
\* fails: the cycle reads self._scenario anew for every sensor, so a swap
\* in the middle of a cycle splits it between two instances.
C21_TickOneInstance == Mixed = {}

(***************************************************************************)
(* Further properties of the classifier (under SpecPure).                  *)
(***************************************************************************)
\* a direct call with warning_delta > alarm_delta has returned
OutOfOrder == Classified_done /\ args[4] > args[5]

\* C24 as stated: with warning_delta > alarm_delta the classifier still
\* returns a status for every value, and every value classified alarm lies
\* beyond the warning margin (the alarm zone is within the warning zone).
\* It fails: the alarm margin is then the nearer one, and a value between
\* the two margins is an alarm that is not beyond the warning margin.
C24_AsStated ==
    OutOfOrder =>
        /\ ret \in {"normal", "warning", "alarm"}
        /\ ret = "alarm" => BeyondWarning

\* C24 (amended): with warning_delta > alarm_delta the classifier still
\* returns a status for every value; the alarm zone is value < min -
\* alarm_delta or value > max + alarm_delta as ever and contains the whole
\* warning zone (every value beyond the warning margin is an alarm), so the
\* warning margin decides nothing: a value is a warning iff it is out of
\* band and not in the alarm zone.
C24_OutOfOrderDeltas ==
    OutOfOrder =>
        /\ ret \in {"normal", "warning", "alarm"}
        /\ ret = "alarm" <=> InAlarm
        /\ BeyondWarning => ret = "alarm"
        /\ ret = "warning" <=> ~InAlarm /\ OutOfBand
        /\ ret = "normal" <=> ~InAlarm /\ ~OutOfBand

\* with warning_delta > alarm_delta >= 0 a value beyond the alarm margin
\* and short of the warning margin has been classified: an alarm
C24_Witness ==
    /\ OutOfOrder
    /\ args[5] >= 0
    /\ InAlarm
    /\ ~BeyondWarning
    /\ ret = "alarm"

\* what the classifier returns for the arguments of the finished call with
\* warning_delta replaced by 0
WithoutWarningDelta == _calculate_status(args[1], args[2], args[3], 0, args[5])

\* C29: for every value, min, max and alarm_delta and every warning_delta
\* >= 0 the result of _calculate_status is the one it gives with
\* warning_delta = 0; a negative warning_delta changes the result only by
\* turning an in-band value that would be normal into a warning.
C29_WarningDeltaInert ==
    Classified_done =>
        /\ args[4] >= 0 => ret = WithoutWarningDelta
        /\ ret # WithoutWarningDelta =>
              /\ args[4] < 0
              /\ ~OutOfBand
              /\ ret = "warning"
              /\ WithoutWarningDelta = "normal"

\* with warning_delta = 3 a value out of band and within the warning margin
\* has been classified: a warning, as with warning_delta = 0
C29_Witness ==
    /\ Classified_done
    /\ args[4] > 0
    /\ args[4] < args[5]
    /\ OutOfBand
    /\ ~BeyondWarning
    /\ ret = "warning"
    /\ WithoutWarningDelta = "warning"

(***************************************************************************)
(* Further properties of the scenario engine (under Spec).                 *)
(***************************************************************************)
\* the last call has read a failed sensor of SensorFailureScenario and has
\* returned a reading that is not offline
GarbageReturned ==
    /\ Returned
    /\ _scenario.cls = "SensorFailureScenario"
    /\ call.sensor_id \in _scenario._failed_sensors
    /\ value.combined_status # "offline"

\* C23 as stated: every non-offline reading of a failed sensor has all
\* three statuses alarm and carries a temperature and a humidity outside
\* the band [min, max] of the limits of the call.  It fails: the values
\* are drawn from -40..85 and 0..100 whatever the limits, and may lie
\* inside the band.
C23_GarbageOutOfRange ==
    GarbageReturned =>
        /\ value.temp_status = "alarm"
        /\ value.hum_status = "alarm"
        /\ value.combined_status = "alarm"
        /\ value.temperature < Filled("temp_min")
              \/ value.temperature > Filled("temp_max")
        /\ value.humidity < Filled("hum_min")
              \/ value.humidity > Filled("hum_max")

\* the last call was a get_value of HVACControlScenario
HvacCall == Returned /\ _scenario.cls = "HVACControlScenario"

\* C25: on each get_value call of HVACControlScenario the flag becomes on
\* exactly when the temperature the call finds is above setpoint +
\* hysteresis, off exactly when it is below setpoint - hysteresis, and is
\* kept otherwise; then the temperature falls by an amount in [0.1, 0.3]
\* if the flag is on and rises by an amount in [0.05, 0.15] if it is off,
\* and the humidity before perturbation is hum_base + 5 when on and
\* hum_base - 2 when off.
C25_HvacHysteresis ==
    HvacCall =>
        /\ _scenario._hvac_on =
              (IF before._current_temp > before.setpoint + before.hysteresis
               THEN TRUE
               ELSE IF before._current_temp < before.setpoint - before.hysteresis
               THEN FALSE
               ELSE before._hvac_on)
        /\ _scenario._hvac_on =>
              before._current_temp - _scenario._current_temp \in 10..30
        /\ ~_scenario._hvac_on =>
              _scenario._current_temp - before._current_temp \in 5..15
        /\ Abs(raw.hum - (_scenario.hum_base
                            + (IF _scenario._hvac_on THEN 500 ELSE -200)))
              <= RoundDiv(_scenario.hum_variation, 2)
        /\ _scenario.setpoint = before.setpoint
        /\ _scenario.hysteresis = before.hysteresis

\* a call has found the temperature above setpoint + hysteresis with the
\* flag off, has switched it on and has cooled
C25_Witness ==
    /\ HvacCall
    /\ before.hysteresis > 0
    /\ ~before._hvac_on
    /\ _scenario._hvac_on
    /\ _scenario._current_temp < before._current_temp

\* C27: for HVACControlScenario with hysteresis >= 0, in every reachable
\* state setpoint - hysteresis - 0.3 <= _current_temp <= setpoint +
\* hysteresis + 0.15.
C27_HvacBounded ==
    (_scenario.cls = "HVACControlScenario" /\ _scenario.hysteresis >= 0) =>
        /\ _scenario.setpoint - _scenario.hysteresis - 30 <= _scenario._current_temp
        /\ _scenario._current_temp <= _scenario.setpoint + _scenario.hysteresis + 15

\* the temperature has reached the upper bound: a call that found it at
\* setpoint + hysteresis with the flag off has added 0.15
C27_Witness ==
    /\ HvacCall
    /\ _scenario.hysteresis > 0
    /\ before._current_temp = _scenario.setpoint + _scenario.hysteresis
    /\ _scenario._current_temp = _scenario.setpoint + _scenario.hysteresis + 15

\* the factor k of the bias (sensor_id - 1) * k of a variant
BiasFactor ==
    IF _scenario.cls = "HVACControlScenario" THEN 10 ELSE 30

\* the baseline of the instance in its state after the call: what the
\* temperature is centred on before the bias and the perturbation
Baseline ==
    IF _scenario.cls = "HVACControlScenario" THEN _scenario._current_temp
    ELSE IF _scenario.cls = "DoorOpenScenario" /\ _scenario._door_open
    THEN DoorCentre
    ELSE _scenario.temp_base

\* the largest perturbation the call may have added
Perturbation ==
    IF _scenario.cls = "HVACControlScenario" THEN 30
    ELSE IF _scenario.cls = "DoorOpenScenario" /\ _scenario._door_open THEN 200
    ELSE _scenario.temp_variation

\* C26 as stated, for NormalScenario, HVACControlScenario and
\* DoorOpenScenario: the temperature of a reading before clamping and
\* rounding is the baseline plus the bias (sensor_id - 1) * k, within the
\* perturbation of the variant.  It fails: the open-door reading of
\* DoorOpenScenario is computed without the bias.
C26_PerSensorBias ==
    (Returned /\ raw # NoRaw
       /\ _scenario.cls \in {"NormalScenario", "HVACControlScenario",
                              "DoorOpenScenario"}) =>
        Abs(raw.temp - (Baseline + (call.sensor_id - 1) * BiasFactor))
            <= Perturbation

\* the last call was a get_value of SensorFailureScenario
FailureCall == Returned /\ _scenario.cls = "SensorFailureScenario"

\* C28: a get_value(s, limits) call on SensorFailureScenario changes the
\* failed set at most by adding s; the membership of every other sensor id
\* is unchanged, and a sensor that is not in the set gets a normal reading
\* (neither offline nor garbage) however many other sensors have failed.
C28_FailureIndependent ==
    FailureCall =>
        /\ _scenario._failed_sensors \in
              {before._failed_sensors, before._failed_sensors \cup {call.sensor_id}}
        /\ \A i \in SensorIds \ {call.sensor_id} :
              i \in _scenario._failed_sensors <=> i \in before._failed_sensors
        /\ call.sensor_id \notin _scenario._failed_sensors =>
              /\ value.modbus_error = "None"
              /\ value.combined_status # "offline"
              /\ raw # NoRaw

\* with sensor 1 failed, sensor 2 has been read: it has not failed and its
\* reading is a normal one
C28_Witness ==
    /\ FailureCall
    /\ before._failed_sensors = {1}
    /\ call.sensor_id = 2
    /\ _scenario._failed_sensors = {1}
    /\ value.modbus_error = "None"
    /\ value.combined_status # "offline"

\* C30: in every state of PowerOutageScenario between get_value calls the
\* power-off flag is set iff the outage countdown is greater than 0, the
\* countdown is between 0 and 29, and a call sets the countdown (triggers
\* an outage) only when it finds the flag clear.
C30_PowerConsistent ==
    _scenario.cls = "PowerOutageScenario" =>
        /\ _scenario._power_off <=> _scenario._outage_timer > 0
        /\ _scenario._outage_timer \in 0..29
        /\ (PowerCall /\ _scenario._outage_timer > before._outage_timer) =>
              /\ ~before._power_off
              /\ before._outage_timer = 0
              /\ run.calls = 1
        /\ (PowerCall /\ before._power_off) =>
              _scenario._outage_timer = before._outage_timer - 1

\* an outage drawn as 30 has been triggered: the countdown stands at 29
C30_Witness ==
    /\ PowerCall
    /\ ~before._power_off
    /\ _scenario._power_off
    /\ _scenario._outage_timer = 29
    /\ run = [drawn |-> 30, calls |-> 1]

(***************************************************************************)
(* Properties of the register map (under SpecReg).                         *)
(***************************************************************************)
\* the arguments of a set_sensor_values call the encoding has room for:
\* one-decimal values, -3276.8 <= t <= 3276.7 and 0 <= h <= 6553.5
Encodable(a) ==
    /\ a[2] % 10 = 0 /\ -327680 <= a[2] /\ a[2] <= 327670
    /\ a[3] % 10 = 0 /\ 0 <= a[3] /\ a[3] <= 655350

\* a step that ends a set_sensor_values call with encodable arguments
\* stores t*10 as a two's-complement word and h*10 as an unsigned word at
\* the sensor's value addresses, so that they read back as t and h, and
\* leaves every register of the other sensors as it was
StoredByStep ==
    (fn' = "set_sensor_values" /\ Encodable(args')) =>
        LET id == args'[1]
            t == args'[2]
            h == args'[3]
        IN  /\ _registers'[temp_addr(id)] =
                   (IF t < 0 THEN 65536 + t \div 10 ELSE t \div 10)
            /\ _registers'[hum_addr(id)] = h \div 10
            /\ SensorValuesOf(_registers', id).temperature.value = t
            /\ SensorValuesOf(_registers', id).humidity.value = h
            /\ DOMAIN _registers' = DOMAIN _registers
            /\ \A a \in DOMAIN _registers \ SensorAddresses(id) :
                   _registers'[a] = _registers[a]

\* a get_sensor_values(id) step that follows such a call for the same
\* sensor returns t and h and changes no register
ReadBackByStep ==
    (fn = "set_sensor_values" /\ Encodable(args) /\ fn' = "get_sensor_values"
       /\ args'[1] = args[1]) =>
        /\ ret'.temperature.value = args[2]
        /\ ret'.humidity.value = args[3]
        /\ _registers' = _registers

\* C22: for every sensor id in 1..sensor_count, every one-decimal
\* temperature t in -3276.8..3276.7 and every one-decimal humidity h in
\* 0..6553.5, set_sensor_values(id, t, h, ...) stores t*10 as a 16-bit
\* two's-complement word and h*10 as an unsigned 16-bit word at the
\* sensor's two value addresses, a following get_sensor_values(id) returns
\* t and h again, and the registers of the other sensors are unchanged.
C22_RegisterRoundTrip == [][StoredByStep /\ ReadBackByStep]_vars

\* -3276.8 and 6553.5 have been written to sensor 2 and read back, and
\* sensor 1 still holds what it was constructed with
C22_Witness ==
    /\ fn = "get_sensor_values"
    /\ args = <<2>>
    /\ _registers[temp_addr(2)] = 32768
    /\ _registers[hum_addr(2)] = 65535
    /\ ret.temperature.value = -327680
    /\ ret.humidity.value = 655350
    /\ _registers[temp_addr(1)] = 220

====
